---- MODULE Spec2Model ----
(***************************************************************************)
(* susanoo: a poller that reads current weather from OpenWeatherMap and    *)
(* DarkSky on two tickers, maps both responses to one Weather struct and   *)
(* records four OpenCensus measurements per tick.                          *)
(*                                                                         *)
(* Two programs of the repository are modelled:                            *)
(*   - the exporter program (unnamed/part_000): Spec                       *)
(*   - the print-only program (main.go):        SpecMain                   *)
(* and the two pure mapping functions over wide input sets: SpecConv.      *)
(***************************************************************************)
EXTENDS Integers, Sequences, FiniteSets, TLC

(***************************************************************************)
(* float64 arithmetic.  A non-negative finite float64 is [m, e] with value *)
(* m * 2^e, where m is zero (and e = 0) or has exactly MantBits bits, as   *)
(* in IEEE 754 binary64.  m is a natural number written in base Base, the  *)
(* least significant limb first, without leading zero limbs.  Every        *)
(* result is rounded to nearest, ties to even, as Go's arithmetic and      *)
(* strconv do.  Subnormals, overflow and negative values are outside the   *)
(* ranges used here.                                                       *)
(***************************************************************************)
MantBits == 53
LimbBits == 14
Base == 2^LimbBits

Limb(a, i) == IF i \in 1..Len(a) THEN a[i] ELSE 0

BTrim(a) == IF a # <<>> /\ a[Len(a)] = 0 THEN SubSeq(a, 1, Len(a) - 1) ELSE a

BFromNat(n) ==
    IF n = 0 THEN <<>>
    ELSE IF n < Base THEN <<n>>
    ELSE BTrim(<<n % Base, (n \div Base) % Base, n \div (Base * Base)>>)

\* only for values that fit two limbs
BToNat(a) == Limb(a, 1) + Base * Limb(a, 2)

\* number of bits of a limb, and of a number
LimbLen(x) == CHOOSE k \in 0..LimbBits : x < 2^k /\ (k = 0 \/ x >= 2^(k - 1))

BitLen(a) == IF a = <<>> THEN 0 ELSE LimbBits * (Len(a) - 1) + LimbLen(a[Len(a)])

\* bit i of a, bit 0 the least significant
Bit(a, i) == (Limb(a, (i \div LimbBits) + 1) \div 2^(i % LimbBits)) % 2

\* a \div 2^k
BShr(a, k) ==
    LET q == k \div LimbBits
        r == k % LimbBits
        n == Len(a) - q
    IN  IF n <= 0 THEN <<>>
        ELSE BTrim([j \in 1..n |->
                      (Limb(a, q + j) \div 2^r)
                      + (Limb(a, q + j + 1) % 2^r) * 2^(LimbBits - r)])

\* a * 2^k
BShl(a, k) ==
    LET q == k \div LimbBits
        r == k % LimbBits
    IN  IF a = <<>> THEN <<>>
        ELSE BTrim([j \in 1..(Len(a) + q + 1) |->
                      IF j <= q THEN 0
                      ELSE ((Limb(a, j - q) * 2^r) % Base)
                           + (Limb(a, j - q - 1) \div 2^(LimbBits - r))])

\* a * k + c for small naturals k and c, from limb i upwards
RECURSIVE BMulAdd(_, _, _, _)
BMulAdd(a, i, k, c) ==
    IF i > Len(a) THEN BFromNat(c)
    ELSE <<(a[i] * k + c) % Base>> \o BMulAdd(a, i + 1, k, (a[i] * k + c) \div Base)

BMulSmall(a, k) == IF k = 0 THEN <<>> ELSE BMulAdd(a, 1, k, 0)

BInc(a) == BMulAdd(a, 1, 1, 1)

\* quotient (one limb per limb of a, leading zeros kept) and remainder of
\* the limbs a[1..i] by the small natural d, by long division from the top
\* limb down; rem is the running remainder
RECURSIVE BDivSmall(_, _, _, _)
BDivSmall(a, i, d, rem) ==
    IF i = 0 THEN [q |-> <<>>, r |-> rem]
    ELSE LET cur  == rem * Base + a[i]
             rest == BDivSmall(a, i - 1, d, cur % d)
         IN  [q |-> rest.q \o <<cur \div d>>, r |-> rest.r]

FZero == [m |-> <<>>, e |-> 0]

\* m * 2^e with m brought to exactly MantBits bits (m has at most MantBits)
FNormalize(m, e) ==
    IF m = <<>> THEN FZero
    ELSE [m |-> BShl(m, MantBits - BitLen(m)), e |-> e - (MantBits - BitLen(m))]

\* round m * 2^e (plus a non-zero remainder below the last bit when sticky)
\* to MantBits significant bits, nearest, ties to even
FRound(m, e, sticky) ==
    IF BitLen(m) <= MantBits THEN FNormalize(m, e)
    ELSE LET k     == BitLen(m) - MantBits
             kept  == BShr(m, k)
             guard == Bit(m, k - 1)
             below == sticky \/ \E i \in 0..(k - 2) : Bit(m, i) = 1
             up    == guard = 1 /\ (below \/ Bit(kept, 0) = 1)
             r     == IF up THEN BInc(kept) ELSE kept
         IN  IF BitLen(r) > MantBits
             THEN [m |-> BShr(r, 1), e |-> e + k + 1]
             ELSE [m |-> r, e |-> e + k]

\* number of quotient bits computed below the binary point before rounding
DivGuardBits == 64

\* x / k on float64, for the float64 of a small natural k >= 1
Float64DivNat(x, k) ==
    IF x.m = <<>> THEN FZero
    ELSE LET n  == BShl(x.m, DivGuardBits)
             qr == BDivSmall(n, Len(n), k, 0)
         IN  FRound(BTrim(qr.q), x.e - DivGuardBits, qr.r # 0)

\* strconv.ParseFloat / encoding/json number decoding: the float64 nearest
\* to the decimal n/d (d a power of ten)
ParseFloat(n, d) ==
    LET s  == MantBits + 2 + LimbLen(d)
        nn == BShl(BFromNat(n), s)
        qr == BDivSmall(nn, Len(nn), d, 0)
    IN  IF n = 0 THEN FZero ELSE FRound(BTrim(qr.q), -s, qr.r # 0)

\* Go's float64(i) for a small non-negative int
IntToFloat(i) == FNormalize(BFromNat(i), 0)

\* x * k on float64, for the float64 of a small natural k
Float64MulNat(x, k) == FRound(BMulSmall(x.m, k), x.e, FALSE)

\* Go's int(f) for a non-negative float64: the fraction is discarded
FloatToInt(x) ==
    IF x.m = <<>> THEN 0
    ELSE IF x.e >= 0 THEN BToNat(BShl(x.m, x.e))
    ELSE BToNat(BShr(x.m, -x.e))

(***************************************************************************)
(* Constants of the program                                                *)
(***************************************************************************)
MeasureTemperature == "temperature"
MeasurePressure == "pressure"
MeasureHumidity == "humidity"
MeasureWindSpeed == "windspeed"

\* the views main registers: HumidityView is commented out of the list
WeatherReportViews == {MeasureTemperature, MeasurePressure, MeasureWindSpeed}

KeyNodeId == "node_id"

(***************************************************************************)
(* Bounds of the model                                                     *)
(***************************************************************************)
\* timer firings in one run
MaxFired == 4

(***************************************************************************)
(* State                                                                   *)
(***************************************************************************)
VARIABLES
    pc,             \* position of the main goroutine
    exitKind,       \* how the process ended: "none", "fatal", "panic", "signal"
    tickersCreated, \* time.NewTicker has run for both tickers
    owmC, dsC,      \* number of ticks buffered in owmTicker.C and dsTicker.C
    fired,          \* timer firings so far
    owmw,           \* the *owm.CurrentWeatherData that every OWM call decodes into
    owmuv,          \* the *owm.UV filled once at startup
    exporter,       \* the stackdriver exporter has been constructed
    flushes,        \* number of exporter.Flush calls
    views,          \* views registered with OpenCensus
    records,        \* batches handed to stats.Record, in order
    stdout,         \* lines printed by the print-only program
    log,            \* log entries, in order
    fetches,        \* provider calls issued by the loop, per path
    handled,        \* ticks received by the loop, per path
    callResult,     \* what the provider call that returned last gave back
    initErr,        \* the constructor that failed at startup, or "none"
    convIn,         \* input of a mapping function (SpecConv)
    convOut         \* its result (SpecConv)

vars == <<pc, exitKind, tickersCreated, owmC, dsC, fired, owmw, owmuv, exporter,
          flushes, views, records, stdout, log, fetches, handled, callResult, initErr,
          convIn, convOut>>

loopVars == <<pc, exitKind, tickersCreated, owmC, dsC, fired, owmw, owmuv, exporter,
              flushes, views, records, stdout, log, fetches, handled, callResult,
              initErr>>

convVars == <<convIn, convOut>>

(***************************************************************************)
(* Provider responses.  A JSON number is the pair <<n, d>> of its decimal  *)
(* text n/d; a JSON object is a record holding only the members present.   *)
(* A response body is [kind |-> "text"] when it is not JSON, and           *)
(* [kind |-> "object", members |-> ...] when it is a JSON object.          *)
(***************************************************************************)
Dec(n, d) == <<n, d>>

JSONNumber(x) == ParseFloat(x[1], x[2])

\* zero value of owm.CurrentWeatherData, as far as OWMToWeather reads it
ZeroCurrentWeatherData ==
    [Main    |-> [Temp |-> FZero, Pressure |-> FZero, Humidity |-> 0],
     Weather |-> <<>>,
     Wind    |-> [Speed |-> FZero, Deg |-> FZero],
     Clouds  |-> [All |-> 0],
     Rain    |-> [ThreeH |-> FZero]]

\* json.Decoder.Decode(&w) inside CurrentByCoordinates: members present in
\* the body overwrite the struct, absent members leave it as it was
DecodeCurrentWeatherData(w, body) ==
    [Main    |-> IF "main" \in DOMAIN body
                 THEN [Temp     |-> JSONNumber(body.main.temp),
                       Pressure |-> JSONNumber(body.main.pressure),
                       Humidity |-> body.main.humidity]
                 ELSE w.Main,
     Weather |-> IF "weather" \in DOMAIN body
                 THEN [i \in 1..Len(body.weather) |-> [Main |-> body.weather[i]]]
                 ELSE w.Weather,
     Wind    |-> IF "wind" \in DOMAIN body
                 THEN [Speed |-> JSONNumber(body.wind.speed),
                       Deg   |-> JSONNumber(body.wind.deg)]
                 ELSE w.Wind,
     Clouds  |-> IF "clouds" \in DOMAIN body THEN [All |-> body.clouds.all] ELSE w.Clouds,
     Rain    |-> IF "rain" \in DOMAIN body
                 THEN [ThreeH |-> JSONNumber(body.rain.h3)]
                 ELSE w.Rain]

\* zero value of DarkSkyForecast.Currently, as far as DSToWeather reads it
ZeroDarkSkyForecast ==
    [Currently |-> [Summary |-> "", Temperature |-> FZero, Pressure |-> FZero,
                    Humidity |-> FZero, WindSpeed |-> FZero, WindBearing |-> 0,
                    PrecipIntensity |-> FZero, CloudCover |-> FZero]]

\* json.Decoder.Decode(&f) of a response body into a fresh DarkSkyForecast.
\* A body that is not JSON, or whose "currently" member is not an object,
\* is an error; a JSON object without the member decodes to the zero value.
DecodeDarkSkyForecast(body) ==
    IF body.kind # "object" THEN [err |-> "syntax", f |-> ZeroDarkSkyForecast]
    ELSE IF "currently" \notin DOMAIN body.members
    THEN [err |-> "nil", f |-> ZeroDarkSkyForecast]
    ELSE IF body.members.currently.type # "object"
    THEN [err |-> "type", f |-> ZeroDarkSkyForecast]
    ELSE LET c == body.members.currently
         IN  [err |-> "nil",
              f   |-> [Currently |->
                        [Summary         |-> c.summary,
                         Temperature     |-> JSONNumber(c.temperature),
                         Pressure        |-> JSONNumber(c.pressure),
                         Humidity        |-> JSONNumber(c.humidity),
                         WindSpeed       |-> JSONNumber(c.windSpeed),
                         WindBearing     |-> c.windBearing,
                         PrecipIntensity |-> JSONNumber(c.precipIntensity),
                         CloudCover      |-> JSONNumber(c.cloudCover)]]]

(***************************************************************************)
(* The mapping functions and the recorder                                  *)
(***************************************************************************)
\* w.Weather[0] panics with "index out of range" on an empty slice
OWMToWeatherPanics(w) == Len(w.Weather) = 0

\* OWMToWeather that copies the 3-hour rainfall without dividing it
OWMToWeatherRawRain(w, uv) ==
    [Temperature |-> w.Main.Temp,
     Pressure    |-> w.Main.Pressure,
     Humidity    |-> w.Main.Humidity,
     Weather     |-> w.Weather[1].Main,
     WindSpeed   |-> w.Wind.Speed,
     WindDeg     |-> w.Wind.Deg,
     Cloudiness  |-> w.Clouds.All,
     Rainfall    |-> w.Rain.ThreeH,
     Snowfall    |-> FZero,
     UV          |-> uv.Value]

OWMToWeather(w, uv) ==
    [Temperature |-> w.Main.Temp,
     Pressure    |-> w.Main.Pressure,
     Humidity    |-> w.Main.Humidity,
     Weather     |-> w.Weather[1].Main,
     WindSpeed   |-> w.Wind.Speed,
     WindDeg     |-> w.Wind.Deg,
     Cloudiness  |-> w.Clouds.All,
     Rainfall    |-> Float64DivNat(w.Rain.ThreeH, 3),
     Snowfall    |-> FZero,
     UV          |-> uv.Value]

DSToWeather(f) ==
    [Temperature |-> f.Currently.Temperature,
     Pressure    |-> f.Currently.Pressure,
     Humidity    |-> FloatToInt(Float64MulNat(f.Currently.Humidity, 100)),
     Weather     |-> f.Currently.Summary,
     WindSpeed   |-> f.Currently.WindSpeed,
     WindDeg     |-> IntToFloat(f.Currently.WindBearing),
     Cloudiness  |-> FloatToInt(Float64MulNat(f.Currently.CloudCover, 100)),
     Rainfall    |-> f.Currently.PrecipIntensity,
     Snowfall    |-> FZero,
     UV          |-> FZero]

\* tag values OpenCensus rejects (longer than 255 bytes or not printable ASCII)
InvalidTagValues == {"dark\nsky"}

Float64M(name, v) == [measure |-> name, type |-> "float64", value |-> v]

\* stats.Int64 measurement of int64(i): the value is kept, the type widened
Int64M(name, i) == [measure |-> name, type |-> "int64", value |-> i]

\* RecordMeasurement that also submits the wind direction
RecordMeasurementWithWindDeg(id, w) ==
    IF id \in InvalidTagValues
    THEN [err |-> "tag", tags |-> <<>>, ms |-> <<>>]
    ELSE [err  |-> "nil",
          tags |-> [k \in {KeyNodeId} |-> id],
          ms   |-> <<Float64M(MeasureTemperature, w.Temperature),
                     Float64M(MeasurePressure, w.Pressure),
                     Int64M(MeasureHumidity, w.Humidity),
                     Float64M(MeasureWindSpeed, w.WindSpeed),
                     Float64M("winddeg", w.WindDeg)>>]

\* RecordMeasurement: the error of tag.New, or one stats.Record batch
RecordMeasurement(id, w) ==
    IF id \in InvalidTagValues
    THEN [err |-> "tag", tags |-> <<>>, ms |-> <<>>]
    ELSE [err  |-> "nil",
          tags |-> [k \in {KeyNodeId} |-> id],
          ms   |-> <<Float64M(MeasureTemperature, w.Temperature),
                     Float64M(MeasurePressure, w.Pressure),
                     Int64M(MeasureHumidity, w.Humidity),
                     Float64M(MeasureWindSpeed, w.WindSpeed)>>]

(***************************************************************************)
(* What the providers can answer                                           *)
(***************************************************************************)
\* the response of the end-to-end scenario
OWMClouds ==
    [main    |-> [temp |-> Dec(152, 10), pressure |-> Dec(1013, 1), humidity |-> 60],
     weather |-> <<"Clouds">>,
     wind    |-> [speed |-> Dec(31, 10), deg |-> Dec(180, 1)],
     clouds  |-> [all |-> 80],
     rain    |-> [h3 |-> Dec(15, 10)]]

\* an API error object such as {"cod":401,"message":"Invalid API key"}
OWMErrorObject == [cod |-> 401]

\* a response whose list of conditions is empty
OWMNoConditions ==
    [main    |-> [temp |-> Dec(10, 1), pressure |-> Dec(1000, 1), humidity |-> 50],
     weather |-> <<>>]

OWMBodies == {OWMClouds, OWMErrorObject, OWMNoConditions}

\* the result of one CurrentByCoordinates call: an error (the HTTP call or
\* the JSON decoding failed) or a decoded body
OWMResults == {[err |-> TRUE]} \cup {[err |-> FALSE, body |-> b] : b \in OWMBodies}

\* the result of uv.Current: on failure the UV struct keeps its zero value
UVResults == {FZero, ParseFloat(42, 10)}

DSCurrently(summary, humidity, cloudCover) ==
    [type |-> "object", summary |-> summary,
     temperature |-> Dec(10, 1), pressure |-> Dec(1000, 1),
     humidity |-> humidity, windSpeed |-> Dec(2, 1), windBearing |-> 90,
     precipIntensity |-> Dec(3, 10), cloudCover |-> cloudCover]

\* the response of the end-to-end scenario
DSRain == [kind |-> "object",
           members |-> [currently |-> DSCurrently("Rain", Dec(55, 100), Dec(9, 10))]]

\* a JSON object without a "currently" member, e.g. {"code":400,"error":"..."}
DSNoCurrently == [kind |-> "object", members |-> [code |-> 400]]

\* a JSON object whose "currently" member is a string
DSCurrentlyString == [kind |-> "object", members |-> [currently |-> [type |-> "string"]]]

\* a body that is not JSON
DSNotJSON == [kind |-> "text"]

DSBodies == {DSRain, DSNoCurrently, DSCurrentlyString, DSNotJSON}

\* the result of http.Get: an error or a response with a body
DSResults == {[err |-> TRUE]} \cup {[err |-> FALSE, body |-> b] : b \in DSBodies}

(***************************************************************************)
(* Logging                                                                 *)
(***************************************************************************)
Errorf(msg) == [level |-> "error", msg |-> msg]
Fatalf(msg) == [level |-> "fatal", msg |-> msg]

Paths == {"owm", "ds"}

\* no provider call has returned yet
NoCall == [path |-> "none"]

Init ==
    /\ pc = "main"
    /\ exitKind = "none"
    /\ tickersCreated = FALSE
    /\ owmC = 0
    /\ dsC = 0
    /\ fired = 0
    /\ owmw = ZeroCurrentWeatherData
    /\ owmuv = [Value |-> FZero]
    /\ exporter = FALSE
    /\ flushes = 0
    /\ views = {}
    /\ records = <<>>
    /\ stdout = <<>>
    /\ log = <<>>
    /\ fetches = [p \in Paths |-> 0]
    /\ handled = [p \in Paths |-> 0]
    /\ callResult = NoCall
    /\ initErr = "none"
    /\ convIn = [kind |-> "none"]
    /\ convOut = [kind |-> "none"]

\* os.Exit(1) of logger.Fatalf / log.Fatal: deferred calls do not run
Exit(entries) ==
    /\ log' = log \o entries
    /\ pc' = "exited"
    /\ exitKind' = "fatal"

\* a panic unwinds main: the deferred exporter.Flush runs when it has been
\* registered, then the process dies
Panic ==
    /\ pc' = "exited"
    /\ exitKind' = "panic"
    /\ flushes' = IF exporter THEN flushes + 1 ELSE flushes

(***************************************************************************)
(* The exporter program (unnamed/part_000)                                 *)
(***************************************************************************)
\* InitOpenWeatherMap: the clients, or the error returned and what was
\* logged.  The results of the two first fetches are not looked at.
InitOpenWeatherMap(newCurrentErr, first, newUVErr, uv) ==
    IF newCurrentErr
    THEN [err |-> "NewCurrent",
          log |-> <<Errorf("failed to initialize OpenWeatherMap current weather data")>>]
    ELSE IF newUVErr
    THEN [err |-> "NewUV",
          log |-> <<Errorf("failed to initialize OpenWeatherMap UV data")>>]
    ELSE [err |-> "none", log |-> <<>>,
          w   |-> IF first.err THEN ZeroCurrentWeatherData
                  ELSE DecodeCurrentWeatherData(ZeroCurrentWeatherData, first.body),
          uv  |-> [Value |-> uv]]

\* InitExporter that logs the failure and carries on
InitExporterNotFatal(newExporterErr) ==
    IF newExporterErr
    THEN [err |-> "NewExporter", fatal |-> FALSE, log |-> <<Errorf("failed to initialize ")>>]
    ELSE [err |-> "none", fatal |-> FALSE, log |-> <<>>]

\* InitExporter: log.Fatal when stackdriver.NewExporter fails
InitExporter(newExporterErr) ==
    IF newExporterErr
    THEN [err |-> "NewExporter", fatal |-> TRUE, log |-> <<Fatalf("failed to initialize ")>>]
    ELSE [err |-> "none", fatal |-> FALSE, log |-> <<>>]

\* main up to the loop: InitOpenWeatherMap, InitExporter, defer Flush,
\* InitOpenCensusStats, the two NewTicker calls
StartMain ==
    /\ pc = "main"
    /\ \E newCurrentErr \in BOOLEAN, first \in OWMResults, newUVErr \in BOOLEAN,
          uv \in UVResults, newExporterErr \in BOOLEAN :
         LET r == InitOpenWeatherMap(newCurrentErr, first, newUVErr, uv)
             x == InitExporter(newExporterErr)
         IN  IF r.err # "none"
             THEN /\ Exit(r.log \o <<Fatalf("failed to initialize OpenWeatherMap")>>)
                  /\ initErr' = r.err
                  /\ UNCHANGED <<tickersCreated, owmw, owmuv, exporter, views>>
             ELSE IF x.fatal
             THEN /\ Exit(x.log)
                  /\ initErr' = x.err
                  /\ UNCHANGED <<tickersCreated, owmw, owmuv, exporter, views>>
             ELSE /\ owmw' = r.w
                  /\ owmuv' = r.uv
                  /\ exporter' = TRUE
                  /\ views' = WeatherReportViews
                  /\ tickersCreated' = TRUE
                  /\ pc' = "select"
                  /\ initErr' = x.err
                  /\ log' = log \o x.log
                  /\ UNCHANGED exitKind
    /\ UNCHANGED <<owmC, dsC, fired, flushes, records, stdout, fetches, handled>>
    /\ UNCHANGED callResult
    /\ UNCHANGED convVars

\* the runtime timer of a ticker fires: the tick is buffered in the
\* ticker's channel of capacity one, or dropped when one is buffered already
OWMTimerFires ==
    /\ tickersCreated
    /\ pc # "exited"
    /\ fired < MaxFired
    /\ fired' = fired + 1
    /\ owmC' = 1
    /\ UNCHANGED <<pc, exitKind, tickersCreated, dsC, owmw, owmuv, exporter, flushes,
                   views, records, stdout, log, fetches, handled>>
    /\ UNCHANGED <<callResult, initErr>>
    /\ UNCHANGED convVars

DSTimerFires ==
    /\ tickersCreated
    /\ pc # "exited"
    /\ fired < MaxFired
    /\ fired' = fired + 1
    /\ dsC' = 1
    /\ UNCHANGED <<pc, exitKind, tickersCreated, owmC, owmw, owmuv, exporter, flushes,
                   views, records, stdout, log, fetches, handled>>
    /\ UNCHANGED <<callResult, initErr>>
    /\ UNCHANGED convVars

\* the OWM case served by a goroutine of its own, not held up by a
\* DarkSky call in flight
OWMSelectReadyConcurrent == pc \in {"select", "ds_call"} /\ owmC = 1

\* the loop is at select and may receive from owmTicker.C
OWMSelectReady == pc = "select" /\ owmC = 1

\* case <-owmTicker.C: the tick is received and CurrentByCoordinates called
OWMTick ==
    /\ OWMSelectReady
    /\ owmC' = 0
    /\ handled' = [handled EXCEPT !["owm"] = @ + 1]
    /\ fetches' = [fetches EXCEPT !["owm"] = @ + 1]
    /\ pc' = "owm_call"
    /\ UNCHANGED <<exitKind, tickersCreated, dsC, fired, owmw, owmuv, exporter, flushes,
                   views, records, stdout, log>>
    /\ UNCHANGED <<callResult, initErr>>
    /\ UNCHANGED convVars

\* the rest of a tick once the Weather is mapped: RecordMeasurement and back
\* to select
RecordTick(id, w) ==
    LET r == RecordMeasurement(id, w)
    IN  /\ IF r.err # "nil"
           THEN /\ log' = log \o <<Errorf("failed to insert key"), Errorf("failed to record")>>
                /\ UNCHANGED records
           ELSE /\ records' = Append(records, [tags |-> r.tags, ms |-> r.ms])
                /\ UNCHANGED log
        /\ pc' = "select"
        /\ UNCHANGED <<exitKind, flushes>>

\* CurrentByCoordinates returns: the error branch, or OWMToWeather and
\* RecordMeasurement
OWMReturn ==
    /\ pc = "owm_call"
    /\ \E res \in OWMResults :
       /\ callResult' = [path |-> "owm", res |-> res]
       /\ IF res.err
         THEN /\ log' = Append(log, Errorf("failed to call current data from OpenWeatherMap"))
              /\ pc' = "select"
              /\ UNCHANGED <<owmw, records, exitKind, flushes>>
         ELSE LET w == DecodeCurrentWeatherData(owmw, res.body)
              IN  /\ owmw' = w
                  /\ IF OWMToWeatherPanics(w)
                     THEN Panic /\ UNCHANGED <<records, log>>
                     ELSE RecordTick("openweathermap", OWMToWeather(w, owmuv))
    /\ UNCHANGED <<tickersCreated, owmC, dsC, fired, owmuv, exporter, views, stdout,
                   fetches, handled>>
    /\ UNCHANGED initErr
    /\ UNCHANGED convVars

\* the loop is at select and may receive from dsTicker.C
DSSelectReady == pc = "select" /\ dsC = 1

\* case <-dsTicker.C: the tick is received and CallDarkSkyForecast called
DSTick ==
    /\ DSSelectReady
    /\ dsC' = 0
    /\ handled' = [handled EXCEPT !["ds"] = @ + 1]
    /\ fetches' = [fetches EXCEPT !["ds"] = @ + 1]
    /\ pc' = "ds_call"
    /\ UNCHANGED <<exitKind, tickersCreated, owmC, fired, owmw, owmuv, exporter, flushes,
                   views, records, stdout, log>>
    /\ UNCHANGED <<callResult, initErr>>
    /\ UNCHANGED convVars

\* CallDarkSkyForecast that drops the decoding error and returns the
\* forecast as far as it was filled
CallDarkSkyForecastDroppingDecodeError(res) ==
    IF res.err
    THEN [err |-> "http", log |-> <<Errorf("failed to call DarkSky forecast API")>>]
    ELSE [err |-> "nil", log |-> <<>>, f |-> DecodeDarkSkyForecast(res.body).f]

\* CallDarkSkyForecast once http.Get has returned: the forecast, or the
\* error and what was logged
CallDarkSkyForecast(res) ==
    IF res.err
    THEN [err |-> "http", log |-> <<Errorf("failed to call DarkSky forecast API")>>]
    ELSE LET d == DecodeDarkSkyForecast(res.body)
         IN  IF d.err # "nil"
             THEN [err |-> d.err, log |-> <<Errorf("failed to decode DarkSky reponse")>>]
             ELSE [err |-> "nil", log |-> <<>>, f |-> d.f]

\* http.Get returns: CallDarkSkyForecast ends, then the error branch, or
\* DSToWeather and RecordMeasurement
DSReturn ==
    /\ pc = "ds_call"
    /\ \E res \in DSResults :
       /\ callResult' = [path |-> "ds", res |-> res]
       /\ LET r == CallDarkSkyForecast(res)
         IN  IF r.err # "nil"
             THEN /\ log' = log \o r.log \o <<Errorf("failed to call DarkSky")>>
                  /\ pc' = "select"
                  /\ UNCHANGED <<records, exitKind, flushes>>
             ELSE RecordTick("darksky", DSToWeather(r.f))
    /\ UNCHANGED <<tickersCreated, owmC, dsC, fired, owmw, owmuv, exporter, views, stdout,
                   fetches, handled>>
    /\ UNCHANGED initErr
    /\ UNCHANGED convVars

\* the process is killed from outside (SIGINT, SIGTERM, SIGKILL): main
\* installs no handler, so nothing of the program runs any more
Signal ==
    /\ pc # "exited"
    /\ pc' = "exited"
    /\ exitKind' = "signal"
    /\ UNCHANGED <<tickersCreated, owmC, dsC, fired, owmw, owmuv, exporter, flushes,
                   views, records, stdout, log, fetches, handled>>
    /\ UNCHANGED <<callResult, initErr>>
    /\ UNCHANGED convVars

Next ==
    \/ StartMain
    \/ OWMTimerFires
    \/ DSTimerFires
    \/ OWMTick
    \/ OWMReturn
    \/ DSTick
    \/ DSReturn
    \/ Signal

Spec == Init /\ [][Next]_vars

(***************************************************************************)
(* The print-only program (main.go)                                        *)
(***************************************************************************)
\* main up to the loop: InitOpenWeatherMap (log.Fatalf on a client error)
\* and the two NewTicker calls
PStartMain ==
    /\ pc = "main"
    /\ \E newCurrentErr \in BOOLEAN, first \in OWMResults, newUVErr \in BOOLEAN,
          uv \in UVResults :
         IF newCurrentErr
         THEN /\ Exit(<<Fatalf("failed to initialize OpenWeatherMap current weather data")>>)
              /\ initErr' = "NewCurrent"
              /\ UNCHANGED <<tickersCreated, owmw, owmuv>>
         ELSE IF newUVErr
         THEN /\ Exit(<<Fatalf("failed to initialize OpenWeatherMap UV data")>>)
              /\ initErr' = "NewUV"
              /\ UNCHANGED <<tickersCreated, owmw, owmuv>>
         ELSE /\ owmw' = IF first.err THEN ZeroCurrentWeatherData
                         ELSE DecodeCurrentWeatherData(ZeroCurrentWeatherData, first.body)
              /\ owmuv' = [Value |-> uv]
              /\ tickersCreated' = TRUE
              /\ pc' = "select"
              /\ UNCHANGED <<exitKind, log, initErr>>
    /\ UNCHANGED <<owmC, dsC, fired, exporter, flushes, views, records, stdout,
                   fetches, handled>>
    /\ UNCHANGED callResult
    /\ UNCHANGED convVars

\* case <-owmTicker.C: the tick is received and CurrentByCoordinates called
POWMTick ==
    /\ pc = "select"
    /\ owmC = 1
    /\ owmC' = 0
    /\ handled' = [handled EXCEPT !["owm"] = @ + 1]
    /\ fetches' = [fetches EXCEPT !["owm"] = @ + 1]
    /\ pc' = "owm_call"
    /\ UNCHANGED <<exitKind, tickersCreated, dsC, fired, owmw, owmuv, exporter, flushes,
                   views, records, stdout, log>>
    /\ UNCHANGED <<callResult, initErr>>
    /\ UNCHANGED convVars

\* the line fmt.Printf writes for a Weather
Printf(src, w) ==
    [src |-> src, Weather |-> w.Weather, Temp |-> w.Temperature,
     Pressure |-> w.Pressure, Humidity |-> w.Humidity, UV |-> w.UV]

\* CurrentByCoordinates returns and its error is dropped: OWMToWeather runs
\* on whatever the struct holds, then the line is printed
POWMReturn ==
    /\ pc = "owm_call"
    /\ \E res \in OWMResults :
       /\ callResult' = [path |-> "owm", res |-> res]
       /\ LET w == IF res.err THEN owmw ELSE DecodeCurrentWeatherData(owmw, res.body)
         IN  /\ owmw' = w
             /\ IF OWMToWeatherPanics(w)
                THEN Panic /\ UNCHANGED <<stdout, log>>
                ELSE /\ stdout' = Append(stdout, Printf("OWM", OWMToWeather(w, owmuv)))
                     /\ pc' = "select"
                     /\ UNCHANGED <<exitKind, flushes, log>>
    /\ UNCHANGED <<tickersCreated, owmC, dsC, fired, owmuv, exporter, views, records,
                   fetches, handled>>
    /\ UNCHANGED initErr
    /\ UNCHANGED convVars

\* case <-dsTicker.C: the tick is received and CallDarkSkyForecast called
PDSTick ==
    /\ pc = "select"
    /\ dsC = 1
    /\ dsC' = 0
    /\ handled' = [handled EXCEPT !["ds"] = @ + 1]
    /\ fetches' = [fetches EXCEPT !["ds"] = @ + 1]
    /\ pc' = "ds_call"
    /\ UNCHANGED <<exitKind, tickersCreated, owmC, fired, owmw, owmuv, exporter, flushes,
                   views, records, stdout, log>>
    /\ UNCHANGED <<callResult, initErr>>
    /\ UNCHANGED convVars

\* http.Get returns: CallDarkSkyForecast ends the process with log.Fatalf on
\* an HTTP or a decoding error, else DSToWeather runs and the line is printed
PDSReturn ==
    /\ pc = "ds_call"
    /\ \E res \in DSResults :
       /\ callResult' = [path |-> "ds", res |-> res]
       /\ IF res.err
         THEN /\ Exit(<<Fatalf("failed to call DarkSky forecast API")>>)
              /\ UNCHANGED stdout
         ELSE LET d == DecodeDarkSkyForecast(res.body)
              IN  IF d.err # "nil"
                  THEN /\ Exit(<<Fatalf("failed to decode DarkSky reponse")>>)
                       /\ UNCHANGED stdout
                  ELSE /\ stdout' = Append(stdout, Printf("DS", DSToWeather(d.f)))
                       /\ pc' = "select"
                       /\ UNCHANGED <<exitKind, log>>
    /\ UNCHANGED <<tickersCreated, owmC, dsC, fired, owmw, owmuv, exporter, flushes, views,
                   records, fetches, handled>>
    /\ UNCHANGED initErr
    /\ UNCHANGED convVars

NextMain ==
    \/ PStartMain
    \/ OWMTimerFires
    \/ DSTimerFires
    \/ POWMTick
    \/ POWMReturn
    \/ PDSTick
    \/ PDSReturn
    \/ Signal

SpecMain == Init /\ [][NextMain]_vars

(***************************************************************************)
(* The mapping functions and the recorder on their own, over wide inputs   *)
(***************************************************************************)
\* humidity and cloud cover are fed as n/PercentSteps, n in 0..PercentSteps
PercentSteps == 100

\* cloud cover values paired with every humidity
CloudCoverSteps == {0, 57, 90, PercentSteps}

\* 3-hour rainfall is fed as n/10, n in 0..MaxRainTenths
MaxRainTenths == 30

DSInputs ==
    {[kind |-> "ds", h |-> h, c |-> c,
      body |-> [kind |-> "object",
                members |-> [currently |->
                    DSCurrently("Rain", Dec(h, PercentSteps), Dec(c, PercentSteps))]]] :
        h \in 0..PercentSteps, c \in CloudCoverSteps}

OWMInputs ==
    {[kind |-> "owm", uv |-> uv,
      body |-> [main    |-> [temp |-> Dec(152, 10), pressure |-> Dec(1013, 1),
                             humidity |-> hum],
                weather |-> <<"Clouds", "Rain">>,
                wind    |-> [speed |-> Dec(31, 10), deg |-> Dec(180, 1)],
                clouds  |-> [all |-> 80],
                rain    |-> [h3 |-> Dec(r, 10)]]] :
        uv \in UVResults, hum \in {0, 60, 100}, r \in 0..MaxRainTenths}

\* Weather values with every field distinct and non-zero, and the ones the
\* scenarios produce
SampleWeathers ==
    {[Temperature |-> ParseFloat(t, 10), Pressure |-> ParseFloat(1013, 1),
      Humidity |-> hum, Weather |-> "Clouds", WindSpeed |-> ParseFloat(31, 10),
      WindDeg |-> ParseFloat(180, 1), Cloudiness |-> 80,
      Rainfall |-> ParseFloat(5, 10), Snowfall |-> ParseFloat(sn, 10),
      UV |-> ParseFloat(42, 10)] :
        t \in {0, 152, 304}, hum \in {0, 55, 60, 100}, sn \in {0, 7}}

RecordInputs ==
    {[kind |-> "record", id |-> id, w |-> w] :
        id \in {"openweathermap", "darksky"} \cup InvalidTagValues, w \in SampleWeathers}

InitConv ==
    /\ pc = "conv"
    /\ exitKind = "none"
    /\ tickersCreated = FALSE
    /\ owmC = 0
    /\ dsC = 0
    /\ fired = 0
    /\ owmw = ZeroCurrentWeatherData
    /\ owmuv = [Value |-> FZero]
    /\ exporter = FALSE
    /\ flushes = 0
    /\ views = {}
    /\ records = <<>>
    /\ stdout = <<>>
    /\ log = <<>>
    /\ fetches = [p \in Paths |-> 0]
    /\ handled = [p \in Paths |-> 0]
    /\ callResult = NoCall
    /\ initErr = "none"
    /\ convIn \in DSInputs \cup OWMInputs \cup RecordInputs
    /\ convOut = [kind |-> "none"]

\* DSToWeather applied to the decoded body
ApplyDSToWeather ==
    /\ convIn.kind = "ds"
    /\ convOut.kind = "none"
    /\ convOut' = [kind |-> "weather", w |-> DSToWeather(DecodeDarkSkyForecast(convIn.body).f)]
    /\ UNCHANGED convIn
    /\ UNCHANGED loopVars

\* OWMToWeather applied to the decoded body and the UV value
ApplyOWMToWeather ==
    /\ convIn.kind = "owm"
    /\ convOut.kind = "none"
    /\ LET w == DecodeCurrentWeatherData(ZeroCurrentWeatherData, convIn.body)
       IN  convOut' = [kind |-> "weather", raw |-> w,
                       w |-> OWMToWeather(w, [Value |-> convIn.uv])]
    /\ UNCHANGED convIn
    /\ UNCHANGED loopVars

\* RecordMeasurement applied to an identifier and a Weather
ApplyRecordMeasurement ==
    /\ convIn.kind = "record"
    /\ convOut.kind = "none"
    /\ convOut' = [kind |-> "recorded", r |-> RecordMeasurement(convIn.id, convIn.w)]
    /\ UNCHANGED convIn
    /\ UNCHANGED loopVars

NextConv ==
    \/ ApplyDSToWeather
    \/ ApplyOWMToWeather
    \/ ApplyRecordMeasurement

SpecConv == InitConv /\ [][NextConv]_vars

(***************************************************************************)
(* Properties                                                              *)
(***************************************************************************)
\* a step in which the provider call of a path returns to the loop
OWMReturnStep == pc = "owm_call" /\ pc' # "owm_call" /\ exitKind' # "signal"
DSReturnStep == pc = "ds_call" /\ pc' # "ds_call" /\ exitKind' # "signal"

\* the entries a step adds to the log
NewLogEntries == {log'[i] : i \in (Len(log) + 1)..Len(log')}

\* bodies that encoding/json rejects for a DarkSkyForecast
UndecodableDSBodies == {DSCurrentlyString, DSNotJSON}

\* bodies that do not have the schema of a forecast
MalformedDSBodies == {DSNoCurrently, DSCurrentlyString, DSNotJSON}

\* C1: a fetch failure on either path (CurrentByCoordinates returning an
\* error, http.Get of CallDarkSkyForecast failing) never ends the process or
\* the loop: the step in which the failed call returns leaves the loop at
\* its select, where the ticks of the other path are received.
C1_FetchFailureKeepsLoopRunning ==
    [][(OWMReturnStep \/ DSReturnStep) /\ callResult'.res.err
         => pc' = "select" /\ exitKind' = "none"]_vars

\* C2: whenever the process has ended after the exporter was constructed,
\* exporter.Flush has run exactly once.
C2_FlushExactlyOnce == (pc = "exited" /\ exporter) => flushes = 1

\* C3: when http.Get succeeds and the body does not have the schema of a
\* forecast, the tick ends with a decode error that is logged as such and not
\* as a fetch error, the process does not panic and nothing is recorded.
C3_MalformedBodyIsDecodeError ==
    [][DSReturnStep /\ ~callResult'.res.err /\ callResult'.res.body \in MalformedDSBodies
         => /\ pc' = "select"
            /\ exitKind' = "none"
            /\ records' = records
            /\ \E e \in NewLogEntries : e.msg = "failed to decode DarkSky reponse"
            /\ \A e \in NewLogEntries : e.msg # "failed to call DarkSky forecast API"]_vars

\* the provider call of the step failed: the fetch, or the decoding
FailedReturnStep ==
    \/ OWMReturnStep /\ callResult'.res.err
    \/ DSReturnStep /\ (callResult'.res.err \/ callResult'.res.body \in UndecodableDSBodies)

\* C4: a tick whose fetch or decode fails is abandoned: nothing is
\* recorded, the failure is logged at error level, the loop is back at its
\* select without another fetch; and fetches are issued one per received
\* tick, each taking a tick out of its ticker's channel.
C4_FailedTickAbandoned ==
    /\ [][FailedReturnStep
            => /\ records' = records
               /\ NewLogEntries # {}
               /\ \A e \in NewLogEntries : e.level = "error"
               /\ fetches' = fetches
               /\ pc' = "select"
               /\ exitKind' = "none"]_vars
    /\ [][/\ fetches'["owm"] # fetches["owm"]
             => fetches'["owm"] = fetches["owm"] + 1 /\ owmC = 1 /\ owmC' = 0
          /\ fetches'["ds"] # fetches["ds"]
             => fetches'["ds"] = fetches["ds"] + 1 /\ dsC = 1 /\ dsC' = 0]_vars
    /\ [](\A p \in Paths : fetches[p] = handled[p])

\* a DarkSky tick whose body could not be decoded was abandoned
C4_Witness ==
    /\ callResult.path = "ds"
    /\ ~callResult.res.err
    /\ callResult.res.body \in UndecodableDSBodies
    /\ pc = "select"
    /\ handled["ds"] = 1
    /\ records = <<>>
    /\ log # <<>>

\* C5: a successful RecordMeasurement submits one batch of exactly four
\* measurements, temperature, pressure, humidity as int64 and wind speed,
\* each with the value of the Weather's field, tagged node_id = id, and none
\* for wind direction, cloudiness, rainfall, snowfall or UV.
C5_FourMeasurements ==
    (convIn.kind = "record" /\ convOut.kind = "recorded" /\ convOut.r.err = "nil")
    => LET ms == convOut.r.ms
           w  == convIn.w
       IN  /\ Len(ms) = 4
           /\ DOMAIN convOut.r.tags = {"node_id"}
           /\ convOut.r.tags["node_id"] = convIn.id
           /\ \E i \in 1..4 : ms[i] = [measure |-> "temperature", type |-> "float64",
                                       value |-> w.Temperature]
           /\ \E i \in 1..4 : ms[i] = [measure |-> "pressure", type |-> "float64",
                                       value |-> w.Pressure]
           /\ \E i \in 1..4 : ms[i] = [measure |-> "humidity", type |-> "int64",
                                       value |-> w.Humidity]
           /\ \E i \in 1..4 : ms[i] = [measure |-> "windspeed", type |-> "float64",
                                       value |-> w.WindSpeed]

\* a Weather with snowfall and UV set was recorded for a valid identifier
C5_Witness ==
    /\ convIn.kind = "record"
    /\ convOut.kind = "recorded"
    /\ convOut.r.err = "nil"
    /\ convIn.id = "darksky"
    /\ convIn.w.Snowfall # FZero
    /\ convIn.w.UV # FZero

\* C6: when owm.NewCurrent, owm.NewUV or stackdriver.NewExporter fails, the
\* failure is logged and the process has ended before the loop: no ticker
\* was created, no tick was handled and nothing was recorded.
C6_InitFailureIsFatal ==
    initErr # "none"
    => /\ pc = "exited"
       /\ exitKind = "fatal"
       /\ log # <<>>
       /\ log[Len(log)].level = "fatal"
       /\ ~tickersCreated
       /\ fired = 0
       /\ \A p \in Paths : handled[p] = 0 /\ fetches[p] = 0
       /\ records = <<>>

\* the exporter could not be constructed
C6_Witness == initErr = "NewExporter" /\ pc = "exited" /\ ~exporter

\* C7: for humidity and cloudCover in [0,1], DSToWeather returns
\* floor(humidity * 100) and floor(cloudCover * 100), both in 0..100, for
\* every input value.
C7_PercentIsFloor ==
    (convIn.kind = "ds" /\ convOut.kind = "weather")
    => /\ convOut.w.Humidity = (convIn.h * 100) \div PercentSteps
       /\ convOut.w.Cloudiness = (convIn.c * 100) \div PercentSteps
       /\ convOut.w.Humidity \in 0..100
       /\ convOut.w.Cloudiness \in 0..100

\* a <= b for two numbers in limbs
BLeq(a, b) ==
    \/ Len(a) < Len(b)
    \/ /\ Len(a) = Len(b)
       /\ \/ a = b
          \/ \E i \in 1..Len(a) : a[i] < b[i] /\ \A j \in (i + 1)..Len(a) : a[j] = b[j]

\* r is a float64 nearest to t/3: |3r - t| is at most three halves of the
\* weight 2^r.e of r's last bit, that is 6*r.m - 3 <= 2*t.m*2^(t.e - r.e) <= 6*r.m + 3
IsNearestThird(r, t) ==
    IF t.m = <<>> THEN r = FZero
    ELSE /\ r.m # <<>>
         /\ t.e >= r.e
         /\ LET x == BShl(BMulSmall(t.m, 2), t.e - r.e)
            IN  /\ BLeq(BMulSmall(r.m, 6), BMulAdd(x, 1, 1, 3))
                /\ BLeq(x, BMulAdd(r.m, 1, 6, 3))

\* C8: OWMToWeather copies temperature, pressure, humidity, wind speed,
\* wind direction and cloudiness unchanged, sets the rainfall to the 3-hour
\* rainfall divided by 3 and the UV to the value of the UV fetch, and leaves
\* the snowfall zero.
C8_OWMMapping ==
    (convIn.kind = "owm" /\ convOut.kind = "weather")
    => LET raw == convOut.raw
           w   == convOut.w
       IN  /\ w.Humidity = convIn.body.main.humidity
           /\ w.Humidity = raw.Main.Humidity
           /\ IsNearestThird(w.Rainfall, raw.Rain.ThreeH)
           /\ raw.Rain.ThreeH = JSONNumber(convIn.body.rain.h3)
           /\ w.UV = convIn.uv
           /\ w.Snowfall = FZero
           /\ w.Temperature = raw.Main.Temp
           /\ w.Pressure = raw.Main.Pressure
           /\ w.WindSpeed = raw.Wind.Speed
           /\ w.WindDeg = raw.Wind.Deg
           /\ w.Cloudiness = raw.Clouds.All

\* the scenario of the specification: 1.5 mm in three hours is 0.5 mm an hour
C8_Witness ==
    /\ convIn.kind = "owm"
    /\ convOut.kind = "weather"
    /\ convIn.body.rain.h3 = Dec(15, 10)
    /\ convOut.w.Rainfall = ParseFloat(5, 10)
    /\ convOut.w.Humidity = 60
    /\ convOut.w.UV = ParseFloat(42, 10)

\* C9: the loop handles one tick at a time.  While the call of one path is
\* in flight no tick is received, so a call that never returns keeps both
\* paths from being handled; a tick of the other path that is buffered
\* meanwhile stays buffered, and can be received once the call has returned.
C9_OneTickAtATime ==
    /\ [][(pc = "owm_call" \/ pc = "ds_call") => handled' = handled]_vars
    /\ [][(pc = "ds_call" /\ owmC = 1) => owmC' = 1]_vars
    /\ [][(pc = "owm_call" /\ dsC = 1) => dsC' = 1]_vars
    /\ [][(pc = "ds_call" /\ owmC = 1 /\ pc' = "select") => OWMSelectReady']_vars
    /\ [][(pc = "owm_call" /\ dsC = 1 /\ pc' = "select") => DSSelectReady']_vars

\* an OWM tick is buffered while the DarkSky call is in flight
C9_Witness == pc = "ds_call" /\ owmC = 1 /\ handled["owm"] = 0

\* C10: every OWM tick whose CurrentByCoordinates returns no error maps
\* the response and reaches RecordMeasurement without the process crashing,
\* whatever the response, an empty list of conditions included.
C10_OWMTickNeverCrashes ==
    [][OWMReturnStep /\ ~callResult'.res.err
         => /\ exitKind' = "none"
            /\ pc' = "select"
            /\ Len(records') = Len(records) + 1]_vars

====
